---- MODULE Spec2Model ----
(***************************************************************************)
(* Model of src/index.js: the POST /webhook/make handler, the content      *)
(* image rewriter (processImagesInContent), image transport                *)
(* (downloadAndUploadImage, uploadBufferToStrapi), bearer verification and *)
(* document creation (createNewsInStrapi).                                 *)
(*                                                                         *)
(* JavaScript strings are sequences of one-character strings.  An optional *)
(* value (null / undefined) is a sequence of length 0, a present value a   *)
(* sequence of length 1.  One request is followed from its arrival to its  *)
(* HTTP response; every await of the handler is a step of its own, with    *)
(* the answer of the remote side chosen by the environment.                *)
(***************************************************************************)
EXTENDS Integers, Sequences, FiniteSets, TLC

\* ------------------------------------------------------------------ bounds

\* Largest number of lines in the Content field of a request.
MaxLines == 2

\* Largest number of nodes in the body of a fragment given to processHtmlContent.
MaxNodes == 3

\* Largest number of img elements in the document of each of two concurrent
\* requests.
MaxImgs == 2

\* Number of milliseconds the clock can advance while two requests run.
MaxTicks == 1

\* ----------------------------------------------------------------- strings

Null == << >>

Some(x) == << x >>

Digit == <<"0", "1", "2", "3", "4", "5", "6", "7", "8", "9">>

Letters == {"a", "b", "c", "d", "e", "f", "g", "h", "i", "j", "k", "l", "m",
            "n", "o", "p", "q", "r", "s", "t", "u", "v", "w", "x", "y", "z",
            "A", "B", "C", "D", "E", "F", "G", "H", "I", "J", "K", "L", "M",
            "N", "O", "P", "Q", "R", "S", "T", "U", "V", "W", "X", "Y", "Z"}

\* The characters the class [a-zA-Z0-9.-] of the sanitising regex keeps.
KeptChars == Letters \cup {Digit[k] : k \in 1..10} \cup {".", "-"}

RECURSIVE ToDigits(_)
\* Number to its decimal string, as a template literal renders it.
ToDigits(n) ==
    IF n < 10 THEN << Digit[n + 1] >>
    ELSE ToDigits(n \div 10) \o << Digit[(n % 10) + 1] >>

\* String.prototype.startsWith
StartsWith(s, p) == Len(s) >= Len(p) /\ SubSeq(s, 1, Len(p)) = p

\* String.prototype.includes for a one-character needle
Includes(s, c) == \E k \in 1..Len(s) : s[k] = c

\* Position of the first c in s (s includes c).
IndexOf(s, c) == CHOOSE k \in 1..Len(s) : s[k] = c /\ \A j \in 1..(k - 1) : s[j] # c

RECURSIVE Split(_, _)
\* String.prototype.split on a one-character separator.
Split(s, c) ==
    IF ~Includes(s, c) THEN << s >>
    ELSE << SubSeq(s, 1, IndexOf(s, c) - 1) >>
         \o Split(SubSeq(s, IndexOf(s, c) + 1, Len(s)), c)

\* filename.replace(/[^a-zA-Z0-9.-]/g, '_')
Sanitize(s) == [k \in 1..Len(s) |-> IF s[k] \in KeptChars THEN s[k] ELSE "_"]

\* ------------------------------------------------------------ sample inputs

HttpPrefix == <<"h", "t", "t", "p", ":", "/", "/">>

HttpsPrefix == <<"h", "t", "t", "p", "s", ":", "/", "/">>

\* http://h/a.png
UrlA == HttpPrefix \o <<"h", "/", "a", ".", "p", "n", "g">>

\* https://g/a.png : another URL with the same last path segment
UrlB == HttpsPrefix \o <<"g", "/", "a", ".", "p", "n", "g">>

\* /r.png : a relative URL
UrlRel == <<"/", "r", ".", "p", "n", "g">>

\* data:x : a data URL
UrlData == <<"d", "a", "t", "a", ":", "x">>

SampleSrcs == {UrlA, UrlB, UrlRel, UrlData}

\* The markup one line of Content can hold: nothing but blanks, plain text,
\* an img element without src, an img element with one of the sample srcs.
LineKinds ==
    {[kind |-> "blank", src |-> Null], [kind |-> "text", src |-> Null],
     [kind |-> "img", src |-> Null]}
    \cup {[kind |-> "img", src |-> Some(u)] : u \in SampleSrcs}

Texts == UNION {[1..n -> LineKinds] : n \in 0..MaxLines}

\* Content of the request body: absent (or ""), a truthy value that is not a
\* string (JSON number, array, object), or a string of lines.
Contents ==
    {[kind |-> "missing", lines |-> << >>], [kind |-> "nonstring", lines |-> << >>]}
    \cup {[kind |-> "string", lines |-> t] : t \in Texts}

\* The API key of the sample configuration.
KeyChars == <<"k", "1">>

BearerWord == <<"B", "e", "a", "r", "e", "r">>

\* Authorization header values: absent, "Bearer k1", "Bearer zz", "Bearer".
AuthHeaders ==
    {Null, Some(BearerWord \o <<" ">> \o KeyChars),
     Some(BearerWord \o <<" ", "z", "z">>), Some(BearerWord)}

\* process.env.MAKE_API_KEY: set or unset
ApiKeys == {Null, Some(KeyChars)}

PngBytes == <<137, 80, 78, 71, 13, 10>>

UnknownBytes == <<0, 1, 2, 3>>

MimeJpeg == <<"i", "m", "a", "g", "e", "/", "j", "p", "e", "g">>

\* The multipart files of the request with fieldname 'Image': none, or one
\* with a buffer and a declared (or missing) MIME type.
ImageFiles ==
    {Null}
    \cup {Some([buffer |-> b, mimetype |-> m]) :
            b \in {PngBytes, UnknownBytes}, m \in {Null, Some(MimeJpeg)}}

\* The values Date.now() takes at the start of processImagesInContent.
ClockTicks == {1700}

\* The slug of the request (slugify of the title and a random suffix; the
\* generator is a library): t-x1
Slug == <<"t", "-", "x", "1">>

\* config.strapiUrl : http://c
StrapiUrl == HttpPrefix \o <<"c">>

\* ------------------------------------------------- functions of the source

\* buffer[k] of a Node Buffer (0-based k); -1 stands for undefined.
ByteAt(buffer, k) == IF k + 1 <= Len(buffer) THEN buffer[k + 1] ELSE -1

\* detectImageType: the {mime, ext} of the first matching signature, or null.
detectImageType(buffer) ==
    IF ByteAt(buffer, 0) = 137 /\ ByteAt(buffer, 1) = 80
       /\ ByteAt(buffer, 2) = 78 /\ ByteAt(buffer, 3) = 71
    THEN Some([mime |-> <<"i", "m", "a", "g", "e", "/", "p", "n", "g">>,
               ext |-> <<"p", "n", "g">>])
    ELSE IF ByteAt(buffer, 0) = 255 /\ ByteAt(buffer, 1) = 216
            /\ ByteAt(buffer, 2) = 255
    THEN Some([mime |-> MimeJpeg, ext |-> <<"j", "p", "g">>])
    ELSE IF ByteAt(buffer, 0) = 71 /\ ByteAt(buffer, 1) = 73
            /\ ByteAt(buffer, 2) = 70
    THEN Some([mime |-> <<"i", "m", "a", "g", "e", "/", "g", "i", "f">>,
               ext |-> <<"g", "i", "f">>])
    ELSE IF ByteAt(buffer, 0) = 82 /\ ByteAt(buffer, 1) = 73
            /\ ByteAt(buffer, 2) = 70 /\ ByteAt(buffer, 3) = 70
    THEN Some([mime |-> <<"i", "m", "a", "g", "e", "/", "w", "e", "b", "p">>,
               ext |-> <<"w", "e", "b", "p">>])
    ELSE Null

\* uploadBufferToStrapi up to its await: the multipart form it submits, or
\* null when it throws before submitting (mimetype.split on an undefined
\* mimetype with no signature detected), which its catch turns into null.
BufferUploadForm(buffer, filename, mimetype) ==
    LET detected == detectImageType(buffer)
        mime == IF detected # Null THEN Some(detected[1].mime) ELSE mimetype
    IN  IF detected = Null /\ mime = Null THEN Null
        ELSE LET parts == Split(mime[1], "/")
                 ext == IF detected # Null THEN detected[1].ext
                        ELSE IF Len(parts) >= 2 /\ parts[2] # << >> THEN parts[2]
                        ELSE <<"p", "n", "g">>
                 finalName == IF Includes(filename, ".") THEN filename
                              ELSE filename \o <<".">> \o ext
             IN  Some([buffer |-> buffer, filename |-> finalName, contentType |-> mime])

\* downloadAndUploadImage between its two awaits: the form built from the
\* download response.
DownloadUploadForm(response, imageName) ==
    [buffer |-> response.data, filename |-> imageName,
     contentType |-> response.contentType]

\* What image transport returns for an answer of the CMS upload endpoint:
\* axios rejects on a network error and on a non-2xx status, reading .url of
\* data[0] throws when the body has no first element, and the catch block
\* turns both into null; otherwise data[0].
TransportResult(answer) ==
    IF answer.kind \in {"network_error", "non_2xx"} THEN Null
    ELSE IF Len(answer.data) = 0 THEN Null
    ELSE Some(answer.data[1])

\* verifyBearerToken
verifyBearerToken(authHeader, expectedToken) ==
    IF authHeader = Null \/ authHeader = Some(<< >>) THEN FALSE
    ELSE LET parts == Split(authHeader[1], " ")
             token == IF Len(parts) >= 2 THEN Some(parts[2]) ELSE Null
         IN  token = expectedToken

\* src && (src.startsWith('http://') || src.startsWith('https://'))
Qualifies(src) ==
    /\ src # Null
    /\ src[1] # << >>
    /\ (StartsWith(src[1], HttpPrefix) \/ StartsWith(src[1], HttpsPrefix))

\* DeriveFilename with the positional index left out of the prefix.
DeriveFilenameNoIndex(src, timestamp, i) ==
    LET urlParts == Split(src, "/")
        last == Split(urlParts[Len(urlParts)], "?")[1]
        withExt == IF Includes(last, ".") THEN last
                   ELSE last \o <<".", "j", "p", "g">>
    IN  <<"c", "o", "n", "t", "e", "n", "t", "_">> \o ToDigits(timestamp)
        \o <<"_">> \o Sanitize(withExt)

\* The filename processImagesInContent derives for the image at index i.
DeriveFilename(src, timestamp, i) ==
    LET urlParts == Split(src, "/")
        last == Split(urlParts[Len(urlParts)], "?")[1]
        withExt == IF Includes(last, ".") THEN last
                   ELSE last \o <<".", "j", "p", "g">>
    IN  <<"c", "o", "n", "t", "e", "n", "t", "_">> \o ToDigits(timestamp)
        \o <<"_">> \o ToDigits(i) \o <<"_">> \o Sanitize(withExt)

\* -------------------------------------------------------------------- HTML
\* An HTML string is a sequence of tokens, an img token with its src.

Tok(k) == [k |-> k, src |-> Null]

RECURSIVE JoinBr(_)
\* paragraphs.join('<br>')
JoinBr(paras) ==
    IF Len(paras) = 0 THEN << >>
    ELSE IF Len(paras) = 1 THEN paras[1]
    ELSE paras[1] \o << Tok("<br>") >> \o JoinBr(Tail(paras))

IsNonBlank(line) == line.kind # "blank"

\* `<p>${l}</p>`
Paragraph(line) ==
    << Tok("<p>"),
       IF line.kind = "img" THEN [k |-> "img", src |-> line.src] ELSE Tok("text"),
       Tok("</p>") >>

\* Content.split(/\n/).map(trim).filter(non-empty).map(<p>..</p>).join('<br>')
ContentToHtml(lines) ==
    LET kept == SelectSeq(lines, IsNonBlank)
    IN  JoinBr([k \in 1..Len(kept) |-> Paragraph(kept[k])])

\* cheerio.load(html): the fragment becomes the children of the body of a
\* full document.
CheerioLoad(html) == [body |-> html]

\* $.html(): the serialization of the whole document.
CheerioHtml(doc) ==
    << Tok("<html>"), Tok("<head>"), Tok("</head>"), Tok("<body>") >>
    \o doc.body \o << Tok("</body>"), Tok("</html>") >>

\* $('img'): the img elements in document order, by their place in the body,
\* from the given place on.
ImgPositions(body, from) ==
    SelectSeq([p \in 1..Len(body) |-> p],
              LAMBDA p : p >= from /\ body[p].k = "img")

\* SetSrc that writes to the first img of the document, whichever image the
\* URL belongs to.
SetSrcOfFirstImage(doc, pos, newUrl) ==
    [doc EXCEPT !.body[ImgPositions(doc.body, 1)[1]].src = Some(newUrl)]

\* img.attr('src', newUrl)
SetSrc(doc, pos, newUrl) ==
    [doc EXCEPT !.body[pos].src = Some(newUrl)]

\* Map.prototype.set : an existing key keeps its place and takes the value
MapSet(m, key, value) ==
    IF \E k \in 1..Len(m) : m[k].key = key
    THEN [k \in 1..Len(m) |-> IF m[k].key = key THEN [key |-> key, value |-> value]
                              ELSE m[k]]
    ELSE Append(m, [key |-> key, value |-> value])

\* Array.from(imageMap.values())
MapValues(m) == [k \in 1..Len(m) |-> m[k].value]

\* ------------------------------------------------------------------- state

VARIABLES
    config,        \* the configuration object: makeApiKey
    req,           \* the request: authorization header, body, files
    pc,            \* where the handler stands
    content,       \* the HTML string handed to processImagesInContent
    doc,           \* the cheerio document of processImagesInContent
    idx,           \* the loop variable i
    timestamp,     \* Date.now() taken before the loop
    successCount,  \* successCount
    failCount,     \* failCount
    imageMap,      \* imageMap, in insertion order
    form,          \* the multipart form of the upload in flight
    answer,        \* the answer of the remote side to the call that returned
    result,        \* what image transport last returned and is not yet overwritten
    rewrite,       \* what processImagesInContent returned
    heroImageId,   \* heroImageId
    sent,          \* the strapiData submitted by createNewsInStrapi
    cms,           \* the CMS: assets stored and documents created
    res,           \* the HTTP response sent
    net,           \* the outbound calls made, in order
    calls,         \* the invocations of downloadAndUploadImage, in order
    uploadedLog,   \* the successful content image uploads, in order
    input,         \* the arguments of a function followed on its own
    output         \* what that function has computed

vars == << config, req, pc, content, doc, idx, timestamp, successCount,
           failCount, imageMap, form, answer, result, rewrite, heroImageId,
           sent, cms, res, net, calls, uploadedLog, input, output >>

rewriterVars == << content, doc, idx, timestamp, successCount, failCount,
                   imageMap, rewrite, calls, uploadedLog >>

NoAnswer == [kind |-> "none", data |-> << >>]

\* The entry of the log of outbound calls for a call that has come back.
Returned == [kind |-> "return", target |-> << >>]

\* Title of the request body: absent (or ""), a value that `Title + ' '`
\* converts to a string, or a truthy value that it cannot convert (an object
\* whose toString and valueOf are no functions).
Titles == {"missing", "text", "unconvertible"}

\* The request as the handler finds it. req.body is an object, or null when
\* the raw JSON text is the literal null, which express.json refuses and the
\* error middleware parses and puts in its place.
Requests ==
    [authorization : AuthHeaders, Title : Titles, Content : Contents,
     imageFile : ImageFiles, body : {"object"}]
    \cup [authorization : AuthHeaders, Title : {"missing"},
          Content : {[kind |-> "missing", lines |-> << >>]},
          imageFile : {Null}, body : {"null"}]

Init ==
    /\ config \in [makeApiKey : ApiKeys]
    /\ req \in Requests
    /\ pc = "received"
    /\ content = << >>
    /\ doc = [body |-> << >>]
    /\ idx = 0
    /\ timestamp = 0
    /\ successCount = 0
    /\ failCount = 0
    /\ imageMap = << >>
    /\ form = Null
    /\ answer = NoAnswer
    /\ result = Null
    /\ rewrite = Null
    /\ heroImageId = Null
    /\ sent = Null
    /\ cms = [assets |-> 0, docs |-> << >>]
    /\ res = Null
    /\ net = << >>
    /\ calls = << >>
    /\ uploadedLog = << >>
    /\ input = Null
    /\ output = Null

\* res.status(s).json(...)
Response(status, success, articleId, imagesUploaded, message) ==
    Some([status |-> status, success |-> success, articleId |-> articleId,
          imagesUploaded |-> imagesUploaded, message |-> message])

Authorized == verifyBearerToken(req.authorization, config.makeApiKey)

\* !Title || !Content
MissingFields == req.Title = "missing" \/ req.Content.kind = "missing"

images == ImgPositions(doc.body, 1)

\* ------------------------------------------------------- the body parsers

\* The statuses of the body-parser errors other than a parse failure: 400
\* (a body that does not inflate, request.size.invalid), 413
\* (entity.too.large), 415 (charset.unsupported).
ParserErrorStatuses == {400, 413, 415}

\* express.json parsed the body, or left it to multer: the handler is reached.
BodyParsed ==
    /\ pc = "received"
    /\ req.body = "object"
    /\ pc' = "start"
    /\ UNCHANGED << input, output, config, req, rewriterVars, form, answer, result, heroImageId,
                    sent, cms, res, net >>

\* express.json fails on the JSON text with entity.parse.failed: the error
\* middleware takes the raw text and cleans it of control characters.
JsonParseFails ==
    /\ pc = "received"
    /\ req.imageFile = Null
    /\ pc' = "cleaning"
    /\ UNCHANGED << input, output, config, req, rewriterVars, form, answer, result, heroImageId,
                    sent, cms, res, net >>

\* JSON.parse(cleaned) succeeds: req.body is what it returned, and next()
\* goes on to the handler.
JsonRepaired ==
    /\ pc = "cleaning"
    /\ pc' = "start"
    /\ UNCHANGED << input, output, config, req, rewriterVars, form, answer, result, heroImageId,
                    sent, cms, res, net >>

\* JSON.parse(cleaned) throws: res.status(400).json({ error: 'Invalid JSON' }),
\* the handler and its authorization check are not reached.
InvalidJson ==
    /\ pc = "cleaning"
    /\ res' = Response(400, FALSE, Null, Null, "Invalid JSON")
    /\ pc' = "done"
    /\ UNCHANGED << input, output, config, req, rewriterVars, form, answer, result, heroImageId,
                    sent, cms, net >>

\* Another error of the body parser: next(err) hands it to the error handler
\* of Express, which answers with the status of the error.
ParserError ==
    /\ pc = "received"
    /\ req.imageFile = Null
    /\ \E status \in ParserErrorStatuses :
         res' = Response(status, FALSE, Null, Null, "body parser error")
    /\ pc' = "done"
    /\ UNCHANGED << input, output, config, req, rewriterVars, form, answer, result, heroImageId,
                    sent, cms, net >>

\* upload.any() refuses a multipart body (a field over the size limit, a body
\* cut short, a malformed part): multer calls next(err) with an error that has
\* no status, and the error handler of Express answers 500. The handler and
\* its authorization check are not reached.
MulterError ==
    /\ pc = "received"
    /\ req.body = "object"
    /\ res' = Response(500, FALSE, Null, Null, "multer error")
    /\ pc' = "done"
    /\ UNCHANGED << input, output, config, req, rewriterVars, form, answer, result, heroImageId,
                    sent, cms, net >>

\* --------------------------------------------------- the handler, to the loop

\* if (!verifyBearerToken(req, config.makeApiKey)) return res.status(401)
Reject401 ==
    /\ pc = "start"
    /\ ~Authorized
    /\ res' = Response(401, FALSE, Null, Null, "Unauthorized")
    /\ pc' = "done"
    /\ UNCHANGED << input, output, config, req, rewriterVars, form, answer, result, heroImageId,
                    sent, cms, net >>

\* if (!Title || !Content) return res.status(400)
Reject400 ==
    /\ pc = "start"
    /\ Authorized
    /\ req.body = "object"
    /\ MissingFields
    /\ res' = Response(400, FALSE, Null, Null,
                       "Missing required fields: Title and Content")
    /\ pc' = "done"
    /\ UNCHANGED << input, output, config, req, rewriterVars, form, answer, result, heroImageId,
                    sent, cms, net >>

\* const { Title, Content } = req.body with req.body null throws a TypeError,
\* which the catch of the handler answers with 500.
BodyThrows ==
    /\ pc = "start"
    /\ Authorized
    /\ req.body = "null"
    /\ res' = Response(500, FALSE, Null, Null,
                       "Cannot destructure property 'Title' of 'req.body' as it is null.")
    /\ pc' = "done"
    /\ UNCHANGED << input, output, config, req, rewriterVars, form, answer, result, heroImageId,
                    sent, cms, net >>

\* slugify(Title + ' ' + nanoid()): the concatenation throws a TypeError for
\* a Title that cannot be converted, which the catch of the handler answers
\* with 500, before Content is looked at.
TitleThrows ==
    /\ pc = "start"
    /\ Authorized
    /\ ~MissingFields
    /\ req.Title = "unconvertible"
    /\ res' = Response(500, FALSE, Null, Null, "Cannot convert object to primitive value")
    /\ pc' = "done"
    /\ UNCHANGED << input, output, config, req, rewriterVars, form, answer, result, heroImageId,
                    sent, cms, net >>

\* Content.split on a truthy Content that is not a string throws a TypeError,
\* which the catch of the handler answers with 500.
ContentThrows ==
    /\ pc = "start"
    /\ Authorized
    /\ ~MissingFields
    /\ req.Title = "text"
    /\ req.Content.kind = "nonstring"
    /\ res' = Response(500, FALSE, Null, Null, "Content.split is not a function")
    /\ pc' = "done"
    /\ UNCHANGED << input, output, config, req, rewriterVars, form, answer, result, heroImageId,
                    sent, cms, net >>

\* The text is converted to paragraphs and processImagesInContent starts:
\* cheerio.load, the counters, Date.now().
BeginRewrite ==
    /\ pc = "start"
    /\ Authorized
    /\ ~MissingFields
    /\ req.Title = "text"
    /\ req.Content.kind = "string"
    /\ content' = ContentToHtml(req.Content.lines)
    /\ doc' = CheerioLoad(content')
    /\ timestamp' \in ClockTicks
    /\ idx' = 0
    /\ successCount' = 0
    /\ failCount' = 0
    /\ imageMap' = << >>
    /\ pc' = "loop"
    /\ UNCHANGED << input, output, config, req, form, answer, result, rewrite, heroImageId, sent,
                    cms, res, net, calls, uploadedLog >>

\* ------------------------------------------------------ the remote sides

\* How a download (axios.get) can end; every kind but "ok" rejects.
DownloadKinds == {"network_error", "timeout", "non_2xx", "ok"}

\* The bodies and content-type headers of a 2xx download.
DownloadBodies ==
    {[data |-> b, contentType |-> Some(MimeJpeg)] : b \in {PngBytes, UnknownBytes}}

\* How a POST to /api/upload can end: rejected (network error, non-2xx), a
\* 2xx answer whose body has no first element, a 2xx answer whose body has a
\* first element that is no asset record, a 2xx answer whose body is the
\* array of the asset created. A first element that is no asset record is
\* falsy ([0], [false], [""]), or truthy with neither field ([{}], the first
\* character of a text or HTML body), with the id only ([{"id": 5}]) or with
\* the url only.
UploadKinds ==
    {"network_error", "non_2xx", "empty_body", "falsy_element", "not_asset",
     "id_only", "url_only", "ok"}

\* The asset record the CMS returns for the n-th asset it stores: its id and
\* its relative url /u/<n>.
NewAsset(n) == [id |-> n, url |-> <<"/", "u", "/">> \o ToDigits(n), shape |-> "asset"]

\* A truthy first element that is no asset record: its id and its url are
\* undefined, and the two fields stand empty.
NotAnAsset == [id |-> 0, url |-> << >>, shape |-> "other"]

\* A falsy first element other than null and undefined: 0, false or "".
FalsyElement == [id |-> 0, url |-> << >>, shape |-> "falsy"]

\* A first element with the id of an asset record and no url.
IdOnly(n) == [id |-> n, url |-> << >>, shape |-> "id_only"]

\* A first element with the url of an asset record and no id.
UrlOnly(n) == [id |-> 0, url |-> <<"/", "u", "/">> \o ToDigits(n), shape |-> "url_only"]

\* The answer of /api/upload of the given kind, the CMS holding `stored` assets.
UploadAnswer(kind, stored) ==
    [kind |-> kind,
     data |-> IF kind = "ok" THEN << NewAsset(stored + 1) >>
              ELSE IF kind = "not_asset" THEN << NotAnAsset >>
              ELSE IF kind = "falsy_element" THEN << FalsyElement >>
              ELSE IF kind = "id_only" THEN << IdOnly(stored + 1) >>
              ELSE IF kind = "url_only" THEN << UrlOnly(stored + 1) >>
              ELSE << >>]

\* element.id : undefined for an element that has no id.
IdOf(element) ==
    IF element.shape \in {"asset", "id_only"} THEN Some(element.id) ELSE Null

\* `${element.url}` : the text undefined for an element that has no url.
UrlTextOf(element) ==
    IF element.shape \in {"asset", "url_only"} THEN element.url
    ELSE <<"u", "n", "d", "e", "f", "i", "n", "e", "d">>

\* if (uploaded) : the value image transport returned is truthy.
Truthy(uploaded) == uploaded # Null /\ uploaded[1].shape # "falsy"

\* ---------------------------------------------------- processImagesInContent

\* The src attribute of the image at index i.
SrcAt(i) == doc.body[images[i + 1]].src

\* NextIndex with the loop variable left where it is.
NextIndexStuck(i) == i

\* The next loop index after the image at index i has been dealt with.
NextIndex(i) == i + 1

\* An image whose src is not an absolute http(s) URL is passed over.
LoopSkip ==
    /\ pc = "loop"
    /\ idx < Len(images)
    /\ ~Qualifies(SrcAt(idx))
    /\ idx' = NextIndex(idx)
    /\ UNCHANGED << input, output, config, req, pc, content, doc, timestamp, successCount,
                    failCount, imageMap, form, answer, result, rewrite,
                    heroImageId, sent, cms, res, net, calls, uploadedLog >>

\* AfterTransportCall with the call not awaited: the loop goes on to the next
\* image while the download is out.
TransportNotAwaited(i) == [pc |-> "loop", idx |-> i + 1]

\* Where the loop stands once it has called downloadAndUploadImage for the
\* image at index i: it awaits the call, at that index.
AfterTransportCall(i) == [pc |-> "download", idx |-> i]

\* The loop stands before an image whose src qualifies.
TransportDue ==
    /\ pc = "loop"
    /\ idx < Len(images)
    /\ Qualifies(SrcAt(idx))

\* A qualifying image: its filename is derived and downloadAndUploadImage is
\* called, which issues the download.
LoopCall ==
    /\ TransportDue
    /\ LET src == SrcAt(idx)[1]
           filename == DeriveFilename(src, timestamp, idx)
       IN  /\ calls' = Append(calls, [index |-> idx, url |-> src, filename |-> filename])
           /\ net' = Append(net, [kind |-> "download", target |-> src])
    /\ pc' = AfterTransportCall(idx).pc
    /\ idx' = AfterTransportCall(idx).idx
    /\ UNCHANGED << input, output, config, req, content, doc, timestamp, successCount,
                    failCount, imageMap, form, answer, result, rewrite,
                    heroImageId, sent, cms, res, uploadedLog >>

\* axios.get rejects: the catch of downloadAndUploadImage returns null.
DownloadFails ==
    /\ pc = "download"
    /\ \E kind \in DownloadKinds \ {"ok"} :
         answer' = [kind |-> kind, data |-> << >>]
    /\ result' = Null
    /\ net' = Append(net, Returned)
    /\ pc' = "imageDone"
    /\ UNCHANGED << input, output, config, req, rewriterVars, form, heroImageId, sent, cms, res >>

\* axios.get resolves: the form is built and posted to /api/upload.
DownloadOk ==
    /\ pc = "download"
    /\ \E response \in DownloadBodies :
         form' = Some(DownloadUploadForm(response, calls[Len(calls)].filename))
    /\ net' = net \o << Returned, [kind |-> "upload", target |-> form'[1].filename] >>
    /\ pc' = "upload"
    /\ UNCHANGED << input, output, config, req, rewriterVars, answer, result, heroImageId, sent,
                    cms, res >>

\* The upload of downloadAndUploadImage ends; the function returns.
UploadReturns ==
    /\ pc = "upload"
    /\ \E kind \in UploadKinds :
         /\ answer' = UploadAnswer(kind, cms.assets)
         /\ cms' = [cms EXCEPT !.assets = IF kind = "ok" THEN @ + 1 ELSE @]
    /\ result' = TransportResult(answer')
    /\ form' = Null
    /\ net' = Append(net, Returned)
    /\ pc' = "imageDone"
    /\ UNCHANGED << input, output, config, req, rewriterVars, heroImageId, sent, res >>

\* `${config.strapiUrl}${uploadedImage.url}`
NewUrl(uploadedImage) == StrapiUrl \o UrlTextOf(uploadedImage)

\* failCount after an image whose transport returned `uploaded`.
FailCountAfter(uploaded, count) == IF Truthy(uploaded) THEN count ELSE count + 1

\* The rest of the loop body, after the await of downloadAndUploadImage.
ImageDone ==
    /\ pc = "imageDone"
    /\ IF Truthy(result)
       THEN /\ doc' = SetSrc(doc, images[idx + 1], NewUrl(result[1]))
            /\ imageMap' = MapSet(imageMap, SrcAt(idx)[1], result[1])
            /\ successCount' = successCount + 1
            /\ uploadedLog' = Append(uploadedLog, [index |-> idx, asset |-> result[1]])
       ELSE UNCHANGED << doc, imageMap, successCount, uploadedLog >>
    /\ failCount' = FailCountAfter(result, failCount)
    /\ idx' = NextIndex(idx)
    /\ result' = Null
    /\ answer' = NoAnswer
    /\ pc' = "loop"
    /\ UNCHANGED << input, output, config, req, content, timestamp, form, rewrite, heroImageId,
                    sent, cms, res, net, calls >>

\* The value processImagesInContent returns.
RewriteResult ==
    [html |-> CheerioHtml(doc),
     images |-> MapValues(imageMap),
     stats |-> [total |-> Len(images), success |-> successCount,
                failed |-> failCount]]

\* The loop is over: processImagesInContent returns.
LoopExit ==
    /\ pc = "loop"
    /\ idx >= Len(images)
    /\ rewrite' = Some(RewriteResult)
    /\ pc' = "cover"
    /\ UNCHANGED << input, output, config, req, content, doc, idx, timestamp, successCount,
                    failCount, imageMap, form, answer, result, heroImageId, sent,
                    cms, res, net, calls, uploadedLog >>

\* ------------------------------------------------- the cover and the document

\* req.files.find(f => f.fieldname === 'Image')
imageFile == req.imageFile

\* `cover-${slug}`
CoverName == <<"c", "o", "v", "e", "r", "-">> \o Slug

\* heroImageId after uploadBufferToStrapi returned `uploaded`
HeroIdOf(uploaded) == IF Truthy(uploaded) THEN IdOf(uploaded[1]) ELSE Null

\* An Image file came with the request and uploadBufferToStrapi throws before
\* it submits anything: it returns null and heroImageId stays null.
CoverUploadThrows ==
    /\ pc = "cover"
    /\ imageFile # Null
    /\ BufferUploadForm(imageFile[1].buffer, CoverName, imageFile[1].mimetype) = Null
    /\ answer' = [kind |-> "mimetype_undefined", data |-> << >>]
    /\ result' = Null
    /\ heroImageId' = HeroIdOf(result')
    /\ pc' = "create"
    /\ UNCHANGED << input, output, config, req, rewriterVars, form, sent, cms, res, net >>

\* An Image file came with the request: uploadBufferToStrapi posts it.
CoverUploadCall ==
    /\ pc = "cover"
    /\ imageFile # Null
    /\ BufferUploadForm(imageFile[1].buffer, CoverName, imageFile[1].mimetype) # Null
    /\ form' = BufferUploadForm(imageFile[1].buffer, CoverName, imageFile[1].mimetype)
    /\ net' = Append(net, [kind |-> "upload", target |-> form'[1].filename])
    /\ pc' = "heroUpload"
    /\ UNCHANGED << input, output, config, req, rewriterVars, answer, result, heroImageId, sent,
                    cms, res >>

\* The upload of uploadBufferToStrapi ends; heroImageId = uploaded.id if it
\* returned an asset.
HeroUploadReturns ==
    /\ pc = "heroUpload"
    /\ \E kind \in UploadKinds :
         /\ answer' = UploadAnswer(kind, cms.assets)
         /\ cms' = [cms EXCEPT !.assets = IF kind = "ok" THEN @ + 1 ELSE @]
    /\ result' = TransportResult(answer')
    /\ heroImageId' = HeroIdOf(result')
    /\ form' = Null
    /\ net' = Append(net, Returned)
    /\ pc' = "create"
    /\ UNCHANGED << input, output, config, req, rewriterVars, sent, res >>

\* The id the handler takes from the rewriter's images when no Image file came.
CoverOfContent(imgs) == IF Len(imgs) > 0 THEN IdOf(imgs[1]) ELSE Null

\* No Image file: else if (images.length > 0) heroImageId = images[0].id
CoverFromContent ==
    /\ pc = "cover"
    /\ imageFile = Null
    /\ heroImageId' = CoverOfContent(rewrite[1].images)
    /\ pc' = "create"
    /\ UNCHANGED << input, output, config, req, rewriterVars, form, answer, result, sent, cms,
                    res, net >>

\* StrapiData with the HTML as it was before the images were rewritten.
StrapiDataOfRawContent(processedContent, heroId) ==
    [slug |-> Slug, content |-> content,
     cover |-> IF heroId # Null /\ heroId[1] # 0 THEN heroId ELSE Null]

\* The strapiData of createNewsInStrapi: cover only if (heroImageId).
StrapiData(processedContent, heroId) ==
    [slug |-> Slug, content |-> processedContent,
     cover |-> IF heroId # Null /\ heroId[1] # 0 THEN heroId ELSE Null]

\* createNewsInStrapi posts the document.
CreateCall ==
    /\ pc = "create"
    /\ sent' = Some(StrapiData(rewrite[1].html, heroImageId))
    /\ net' = Append(net, [kind |-> "create", target |-> Slug])
    /\ answer' = NoAnswer
    /\ pc' = "creating"
    /\ UNCHANGED << input, output, config, req, rewriterVars, form, result, heroImageId, cms, res >>

\* The creation is rejected: the error reaches the catch of the handler.
CreateFails ==
    /\ pc = "creating"
    /\ \E kind \in {"network_error", "non_2xx"} :
         /\ answer' = [kind |-> kind, data |-> << >>]
         /\ res' = Response(500, FALSE, Null, Null,
                            IF kind = "non_2xx" THEN "Request failed with status code 400"
                            ELSE "Network Error")
    /\ net' = Append(net, Returned)
    /\ pc' = "done"
    /\ UNCHANGED << input, output, config, req, rewriterVars, form, result, heroImageId, sent,
                    cms >>

\* The document is created and the answer carries data.id: 200.
CreateSucceeds ==
    /\ pc = "creating"
    /\ answer' = [kind |-> "created", data |-> << >>]
    /\ cms' = [cms EXCEPT !.docs = Append(@, sent[1])]
    /\ res' = Response(200, TRUE, Some(Len(cms'.docs)),
                       Some(Len(rewrite[1].images)), "Actualite publiee avec succes")
    /\ net' = Append(net, Returned)
    /\ pc' = "done"
    /\ UNCHANGED << input, output, config, req, rewriterVars, form, result, heroImageId, sent >>

\* The document is created but the 2xx answer has no data: reading
\* strapiResponse.data.id throws, and the catch answers 500.
CreateAnswerWithoutData ==
    /\ pc = "creating"
    /\ answer' = [kind |-> "created_no_data", data |-> << >>]
    /\ cms' = [cms EXCEPT !.docs = Append(@, sent[1])]
    /\ res' = Response(500, FALSE, Null, Null,
                       "Cannot read properties of undefined (reading 'id')")
    /\ net' = Append(net, Returned)
    /\ pc' = "done"
    /\ UNCHANGED << input, output, config, req, rewriterVars, form, result, heroImageId, sent >>

\* ------------------------------------------------------------ specification

Next ==
    \/ BodyParsed
    \/ JsonParseFails
    \/ JsonRepaired
    \/ InvalidJson
    \/ ParserError
    \/ MulterError
    \/ Reject401
    \/ Reject400
    \/ BodyThrows
    \/ TitleThrows
    \/ ContentThrows
    \/ BeginRewrite
    \/ LoopSkip
    \/ LoopCall
    \/ DownloadFails
    \/ DownloadOk
    \/ UploadReturns
    \/ ImageDone
    \/ LoopExit
    \/ CoverUploadThrows
    \/ CoverUploadCall
    \/ HeroUploadReturns
    \/ CoverFromContent
    \/ CreateCall
    \/ CreateFails
    \/ CreateSucceeds
    \/ CreateAnswerWithoutData

Spec == Init /\ [][Next]_vars

\* The event loop runs a handler that can go on, and every outbound call in
\* flight comes back, with an answer or an error: a step that is possible is
\* taken in the end.
\* LoopCall can be taken exactly when TransportDue holds, the rest of it being
\* assignments: its weak fairness is written with that condition.
StepsButLoopCall ==
    \/ BodyParsed \/ JsonParseFails \/ JsonRepaired \/ InvalidJson \/ ParserError
    \/ MulterError \/ Reject401 \/ Reject400 \/ BodyThrows \/ TitleThrows \/ ContentThrows \/ BeginRewrite \/ LoopSkip
    \/ DownloadFails \/ DownloadOk \/ UploadReturns \/ ImageDone \/ LoopExit
    \/ CoverUploadThrows \/ CoverUploadCall \/ HeroUploadReturns
    \/ CoverFromContent \/ CreateCall \/ CreateFails \/ CreateSucceeds
    \/ CreateAnswerWithoutData

FairSpec ==
    /\ Spec
    /\ WF_vars(StepsButLoopCall)
    /\ ([]<>~TransportDue \/ []<><<LoopCall>>_vars)

\* ------------------------------------------------------------- properties

\* The img elements of the HTML handed to the rewriter, and their srcs.
OrigImages == ImgPositions(content, 1)

OrigSrc(i) == content[OrigImages[i + 1]].src

CurSrc(i) == doc.body[images[i + 1]].src

ImageIndexes == 0..(Len(OrigImages) - 1)

QualifyingIndexes ==
    LET orig == OrigImages
    IN  {i \in 0..(Len(orig) - 1) : Qualifies(content[orig[i + 1]].src)}

CalledIndexes == {calls[k].index : k \in 1..Len(calls)}

\* The images whose transport has ended with the asset record of a
\* successful upload.
SucceededIndexes ==
    {uploadedLog[k].index :
        k \in {n \in 1..Len(uploadedLog) : uploadedLog[n].asset.shape = "asset"}}

\* The images whose transport has failed: it has ended without the asset
\* record of a successful upload.
FailedIndexes == {i \in CalledIndexes : i < idx /\ i \notin SucceededIndexes}

CreateCalls == {k \in 1..Len(net) : net[k].kind = "create"}

Rewritten == rewrite # Null

\* The Image file came with the request and its upload returned an asset.
HeroUploaded == imageFile # Null /\ result # Null /\ result[1].shape = "asset"

\* C1: the cover sent to document creation is the id of the explicit hero
\* upload if the Image file is present and its upload succeeded, otherwise
\* the id of the first entry of the rewriter's uploaded-assets list if that
\* list is non-empty, otherwise no cover is sent.
C1_CoverPriority ==
    sent # Null =>
        sent[1].cover =
            IF HeroUploaded THEN Some(result[1].id)
            ELSE IF Len(rewrite[1].images) > 0 THEN IdOf(rewrite[1].images[1])
            ELSE Null

\* C2: a failed image transport leaves that image's src as it was, adds
\* exactly one to the failed count, and does not stop the loop: every
\* qualifying image the loop has passed was handed to image transport and
\* the loop only returns at the end of the list; the images that succeeded
\* carry the URL of their own asset. A transport has failed when it has ended
\* without the asset record of a successful upload.
C2_FailureIsLocal ==
    /\ \A i \in FailedIndexes : CurSrc(i) = OrigSrc(i)
    /\ failCount = Cardinality(FailedIndexes)
    /\ \A i \in QualifyingIndexes : i < idx => i \in CalledIndexes
    /\ Rewritten => idx = Len(OrigImages)
    /\ \A k \in 1..Len(uploadedLog) :
         uploadedLog[k].index \in SucceededIndexes =>
             CurSrc(uploadedLog[k].index) = Some(StrapiUrl \o uploadedLog[k].asset.url)

\* C3: stats.total is the number of qualifying images and equals success +
\* failed; non-qualifying images keep their src.
C3_StatsCountQualifying ==
    Rewritten =>
        /\ rewrite[1].stats.total = Cardinality(QualifyingIndexes)
        /\ rewrite[1].stats.total = rewrite[1].stats.success + rewrite[1].stats.failed
        /\ \A i \in ImageIndexes \ QualifyingIndexes : CurSrc(i) = OrigSrc(i)

\* C4: the uploaded-assets list has exactly one entry per successful upload,
\* in document order, with no deduplication; its length is stats.success and
\* imagesUploaded in the response is the number of successful uploads.
C4_OneEntryPerUpload ==
    Rewritten =>
        /\ rewrite[1].images = [k \in 1..Len(uploadedLog) |-> uploadedLog[k].asset]
        /\ Len(rewrite[1].images) = rewrite[1].stats.success
        /\ (res # Null /\ res[1].status = 200) =>
               res[1].imagesUploaded = Some(Len(uploadedLog))

\* C5: rewriting HTML with no qualifying image returns the input string
\* itself, calls image transport not at all, and returns no asset and the
\* stats {0, 0, 0}.
C5_NoImageRoundTrip ==
    (Rewritten /\ QualifyingIndexes = {}) =>
        /\ rewrite[1].html = content
        /\ calls = << >>
        /\ rewrite[1].images = << >>
        /\ rewrite[1].stats = [total |-> 0, success |-> 0, failed |-> 0]

\* C6: if every content image upload fails, every src is the original one,
\* the uploaded-assets list is empty, document creation is called exactly
\* once, with no cover unless the hero upload succeeded, and success is
\* reported if the document was created.
C6_AllUploadsFail ==
    (pc = "done" /\ Rewritten /\ calls # << >> /\ uploadedLog = << >>) =>
        /\ \A i \in ImageIndexes : CurSrc(i) = OrigSrc(i)
        /\ rewrite[1].images = << >>
        /\ Cardinality(CreateCalls) = 1
        /\ sent[1].cover = (IF HeroUploaded THEN Some(result[1].id) ELSE Null)
        /\ Len(cms.docs) = 1 => res[1].status = 200

\* The kinds of answer that are a failure of a transport step.
TransportFailures ==
    {"network_error", "timeout", "non_2xx", "empty_body", "falsy_element",
     "not_asset", "id_only", "url_only", "mimetype_undefined"}

\* C7: image transport returns null on every failure of a step, a malformed
\* upload answer among them, a value it returns is the first asset record of
\* the 2xx upload answer, and nothing reaches the handler's catch: no response
\* has been sent when it returns.
C7_TransportFailsSoft ==
    (pc \in {"imageDone", "create"} /\ answer.kind # "none") =>
        /\ answer.kind \in TransportFailures => result = Null
        /\ result # Null => (answer.kind = "ok" /\ result[1] = answer.data[1])
        /\ res = Null

\* The response was sent by the handler of /webhook/make, the body parsers
\* having passed the request on.
AnsweredByHandler ==
    /\ res # Null
    /\ res[1].message \notin {"Invalid JSON", "body parser error", "multer error"}

\* C8: for an authorized request with Title and Content, the request fails
\* exactly when the document-creation call fails, the 500 then carries the
\* error of that call, and the creation call is always made.
C8_OnlyCreationFails ==
    (pc = "done" /\ AnsweredByHandler /\ Authorized /\ ~MissingFields) =>
        /\ sent # Null
        /\ res[1].status \in {200, 500}
        /\ res[1].status = 500 <=> answer.kind \in {"network_error", "non_2xx"}
        /\ res[1].status = 500 =>
               res[1].message \in {"Network Error", "Request failed with status code 400"}

\* The Authorization header holds the configured API key as one of its words.
CarriesKey ==
    /\ config.makeApiKey # Null
    /\ req.authorization # Null
    /\ LET words == Split(req.authorization[1], " ")
       IN  \E k \in 1..Len(words) : words[k] = config.makeApiKey[1]

\* C9: a request whose Authorization header does not carry the configured
\* API key is answered 401, an authorized request without Title or Content
\* is answered 400, both without any outbound call.
C9_RejectedEarly ==
    pc = "done" =>
        /\ ~CarriesKey => (res[1].status = 401 /\ net = << >>)
        /\ (Authorized /\ MissingFields) => (res[1].status = 400 /\ net = << >>)

\* C10: image transport is invoked once per qualifying image, in document
\* order, with the image's own src, and the filenames of one document are
\* pairwise distinct.
C10_OneCallPerImage ==
    LET orig == OrigImages
        qualifying == {i \in 0..(Len(orig) - 1) : Qualifies(content[orig[i + 1]].src)}
    IN  /\ \A k \in 1..Len(calls) :
             /\ calls[k].index \in qualifying
             /\ calls[k].url = content[orig[calls[k].index + 1]].src[1]
             /\ \A j \in 1..Len(calls) : j < k => calls[j].index < calls[k].index
        /\ \A j, k \in 1..Len(calls) : j # k => calls[j].filename # calls[k].filename
        /\ Rewritten => Len(calls) = Cardinality(qualifying)

\* C10 witness: two images with different srcs and the same last path segment
\* were handed to image transport.
C10_Witness ==
    /\ Rewritten
    /\ Len(calls) = 2
    /\ calls[1].url = UrlA
    /\ calls[2].url = UrlB

\* The MIME types declared for the buffer of the upload in flight: the
\* mimetype of the Image file, or the content-type of the download.
DeclaredTypes ==
    IF pc = "heroUpload" THEN {imageFile[1].mimetype}
    ELSE {d.contentType : d \in {b \in DownloadBodies : b.data = form[1].buffer}}

\* C11: the MIME type sent with a CMS upload is the type of the signature the
\* leading bytes match, whatever type was declared, and the declared type
\* when no signature matches, for a downloaded image and for a buffer alike.
C11_SniffedMime ==
    (pc \in {"upload", "heroUpload"} /\ form # Null) =>
        LET detected == detectImageType(form[1].buffer)
        IN  IF detected # Null
            THEN form[1].contentType = Some(detected[1].mime)
            ELSE form[1].contentType \in DeclaredTypes

\* --------------------------------------------------------- processHtmlContent
\* The body of a fragment is a sequence of nodes: an element with its tag, the
\* number of img elements inside it and the kind of text inside it ("none",
\* "blank" for white space only, "words"), or a text node (tag "text").

Node(tag, imgs, text) == [tag |-> tag, imgs |-> imgs, text |-> text]

HtmlNodes ==
    {Node("h1", 0, "words"), Node("h2", 0, "words"), Node("img", 0, "none"),
     Node("p", 1, "none"), Node("p", 1, "blank"), Node("p", 1, "words"),
     Node("p", 0, "words"), Node("p", 2, "none"), Node("div", 0, "words"),
     Node("script_ld", 0, "words"), Node("text", 0, "words")}

Fragments == UNION {[1..n -> HtmlNodes] : n \in 0..MaxNodes}

IsElement(node) == node.tag # "text"

IsNotJsonLd(node) == node.tag # "script_ld"

\* $('script[type="application/ld+json"]').remove()
RemoveJsonLd(body) == SelectSeq(body, IsNotJsonLd)

\* Position of $('body').children().first() in the body, 0 when the body has
\* no element.
FirstElement(body) ==
    IF \E k \in 1..Len(body) : IsElement(body[k])
    THEN CHOOSE k \in 1..Len(body) :
            IsElement(body[k]) /\ \A j \in 1..(k - 1) : ~IsElement(body[j])
    ELSE 0

\* element.remove() of the node at position k
RemoveAt(body, k) == SubSeq(body, 1, k - 1) \o SubSeq(body, k + 1, Len(body))

\* LeadingImage with the paragraph case left out.
LeadingImageBareOnly(el) == el.tag = "img"

\* The test on the element that follows the removed h1: an img, or a p that
\* holds an img and whose text trims to nothing.
LeadingImage(el) ==
    \/ el.tag = "img"
    \/ (el.tag = "p" /\ el.imgs > 0 /\ el.text \in {"none", "blank"})

\* The removal of the leading h1 and of the image after it.
StripLeading(body) ==
    LET first == FirstElement(body)
    IN  IF first # 0 /\ body[first].tag = "h1"
        THEN LET rest == RemoveAt(body, first)
                 next == FirstElement(rest)
             IN  IF next # 0 /\ LeadingImage(rest[next]) THEN RemoveAt(rest, next)
                 ELSE rest
        ELSE body

RECURSIVE BreakBeforeH2(_)
\* processedHtml.replace(/<h2/g, '<br><h2')
BreakBeforeH2(body) ==
    IF Len(body) = 0 THEN << >>
    ELSE (IF body[1].tag = "h2" THEN << Node("br", 0, "none"), body[1] >>
          ELSE << body[1] >>) \o BreakBeforeH2(Tail(body))

RECURSIVE BodyOfFragment(_)
\* $('body') of cheerio.load(html): the parser puts the script elements that
\* come before any other node of the fragment into the head, the rest is the
\* body.
BodyOfFragment(html) ==
    IF Len(html) > 0 /\ html[1].tag = "script_ld" THEN BodyOfFragment(Tail(html))
    ELSE html

\* processHtmlContent
processHtmlContent(html) ==
    BreakBeforeH2(StripLeading(RemoveJsonLd(BodyOfFragment(html))))

\* The handler variables of a specification that follows one function only.
HandlerIdle ==
    /\ config = [makeApiKey |-> Null]
    /\ req = [authorization |-> Null, Title |-> "missing",
              Content |-> [kind |-> "missing", lines |-> << >>], imageFile |-> Null]
    /\ content = << >>
    /\ doc = [body |-> << >>]
    /\ idx = 0
    /\ timestamp = 0
    /\ successCount = 0
    /\ failCount = 0
    /\ imageMap = << >>
    /\ form = Null
    /\ answer = NoAnswer
    /\ result = Null
    /\ rewrite = Null
    /\ heroImageId = Null
    /\ sent = Null
    /\ cms = [assets |-> 0, docs |-> << >>]
    /\ res = Null
    /\ net = << >>
    /\ calls = << >>
    /\ uploadedLog = << >>

handlerVars == << config, req, content, doc, idx, timestamp, successCount,
                  failCount, imageMap, form, answer, result, rewrite,
                  heroImageId, sent, cms, res, net, calls, uploadedLog >>

InitNormalize ==
    /\ HandlerIdle
    /\ pc = "normalize"
    /\ input \in Fragments
    /\ output = Null

\* processHtmlContent is applied to the fragment.
Normalize ==
    /\ pc = "normalize"
    /\ output' = Some(processHtmlContent(input))
    /\ pc' = "normalized"
    /\ UNCHANGED << input, handlerVars >>

SpecNormalize == InitNormalize /\ [][Normalize]_vars

IsNotBreak(node) == node.tag # "br"

\* The elements of the normalized fragment, the inserted breaks left out.
Kept == SelectSeq(output[1], IsNotBreak)

\* The body the fragment is parsed to.
InputBody == BodyOfFragment(input)

\* The first element of the body is an h1 and the element after it is a
\* standalone image: an img, or a p whose only content is one img.
LeadsWithTitleImage(body) ==
    LET first == FirstElement(body)
        rest == RemoveAt(body, first)
        next == FirstElement(rest)
    IN  /\ first # 0
        /\ body[first].tag = "h1"
        /\ next # 0
        /\ (rest[next].tag = "img"
            \/ rest[next] = Node("p", 1, "none"))

\* The body without its first two elements.
WithoutFirstTwo(body) ==
    LET rest == RemoveAt(body, FirstElement(body))
    IN  RemoveAt(rest, FirstElement(rest))

FirstIsH1(body) ==
    FirstElement(body) # 0 /\ body[FirstElement(body)].tag = "h1"

\* C12 as stated: a body whose first element is an h1 followed by a
\* standalone image loses exactly those two elements and no other element;
\* a body whose first element is not an h1 loses no heading, image or
\* paragraph (nothing but JSON-LD scripts).
C12_ExactlyTitleAndImage ==
    pc = "normalized" =>
        /\ LeadsWithTitleImage(InputBody) => Kept = WithoutFirstTwo(InputBody)
        /\ ~FirstIsH1(InputBody) => Kept = RemoveJsonLd(InputBody)

\* C12 amended: the JSON-LD script elements are removed first; if the first
\* element of what is left is an h1 followed by a standalone image, exactly
\* those two elements are removed besides the scripts, and if it is not an
\* h1, nothing is removed besides the scripts.
C12_TitleImageAndJsonLd ==
    pc = "normalized" =>
        LET cleaned == RemoveJsonLd(InputBody)
        IN  /\ LeadsWithTitleImage(cleaned) => Kept = WithoutFirstTwo(cleaned)
            /\ ~FirstIsH1(cleaned) => Kept = cleaned

\* C12 witness: a fragment h1, p holding one img, then a paragraph of text
\* has been normalized to that paragraph.
C12_Witness ==
    /\ pc = "normalized"
    /\ input = << Node("h1", 0, "words"), Node("p", 1, "none"), Node("p", 0, "words") >>
    /\ output = Some(<< Node("p", 0, "words") >>)

\* ------------------------------------------------- two concurrent requests
\* Two requests run processImagesInContent on the one event loop: each takes
\* Date.now() when it starts, derives a filename for each qualifying image
\* and awaits image transport, during which the other request may run.

\* http://h/p.png?x=/y : a query string that holds a '/'
UrlQuery == HttpPrefix \o <<"h", "/", "p", ".", "p", "n", "g", "?", "x", "=", "/", "y">>

\* http://h : an empty path
UrlHost == HttpPrefix \o <<"h">>

\* https://g/b% : a last segment without extension, with a character to replace
UrlOdd == HttpsPrefix \o <<"g", "/", "b", "%">>

ConcurrentSrcs == {UrlA, UrlQuery, UrlHost, UrlOdd, UrlRel}

\* The srcs of the img elements of a document, in document order.
SrcLists == UNION {[1..n -> ConcurrentSrcs] : n \in 0..MaxImgs}

Reqs == {1, 2}

\* The first value of the clock.
FirstTick == CHOOSE t \in ClockTicks : TRUE

InitTwo ==
    /\ HandlerIdle
    /\ pc = "two"
    /\ input \in [Reqs -> SrcLists]
    /\ output = [clock |-> FirstTick,
                 at |-> [r \in Reqs |-> "idle"],
                 timestamp |-> [r \in Reqs |-> 0],
                 i |-> [r \in Reqs |-> 0],
                 calls |-> [r \in Reqs |-> << >>]]

\* A millisecond passes.
Tick ==
    /\ pc = "two"
    /\ output.clock < FirstTick + MaxTicks
    /\ output' = [output EXCEPT !.clock = @ + 1]
    /\ UNCHANGED << input, pc, handlerVars >>

\* const timestamp = Date.now()
BeginLoop(r) ==
    /\ pc = "two"
    /\ output.at[r] = "idle"
    /\ output' = [output EXCEPT !.at[r] = "loop", !.timestamp[r] = output.clock]
    /\ UNCHANGED << input, pc, handlerVars >>

\* An image whose src does not qualify is passed over.
SkipImage(r) ==
    /\ pc = "two"
    /\ output.at[r] = "loop"
    /\ output.i[r] < Len(input[r])
    /\ ~Qualifies(Some(input[r][output.i[r] + 1]))
    /\ output' = [output EXCEPT !.i[r] = NextIndex(@)]
    /\ UNCHANGED << input, pc, handlerVars >>

\* The filename is derived and image transport is called and awaited.
CallTransport(r) ==
    /\ pc = "two"
    /\ output.at[r] = "loop"
    /\ output.i[r] < Len(input[r])
    /\ Qualifies(Some(input[r][output.i[r] + 1]))
    /\ LET src == input[r][output.i[r] + 1]
           filename == DeriveFilename(src, output.timestamp[r], output.i[r])
       IN  output' = [output EXCEPT
                        !.at[r] = "await",
                        !.calls[r] = Append(@, [index |-> output.i[r], url |-> src,
                                                filename |-> filename])]
    /\ UNCHANGED << input, pc, handlerVars >>

\* Image transport returns, with an asset or null, and the loop goes on.
ResumeLoop(r) ==
    /\ pc = "two"
    /\ output.at[r] = "await"
    /\ output' = [output EXCEPT !.at[r] = "loop", !.i[r] = NextIndex(@)]
    /\ UNCHANGED << input, pc, handlerVars >>

\* The loop of the request is over.
EndLoop(r) ==
    /\ pc = "two"
    /\ output.at[r] = "loop"
    /\ output.i[r] >= Len(input[r])
    /\ output' = [output EXCEPT !.at[r] = "done"]
    /\ UNCHANGED << input, pc, handlerVars >>

NextTwo ==
    \/ Tick
    \/ \E r \in Reqs : BeginLoop(r)
    \/ \E r \in Reqs : SkipImage(r)
    \/ \E r \in Reqs : CallTransport(r)
    \/ \E r \in Reqs : ResumeLoop(r)
    \/ \E r \in Reqs : EndLoop(r)

SpecTwo == InitTwo /\ [][NextTwo]_vars

\* C13: the filenames derived by two requests that run at overlapping times
\* differ, also when both start within one clock tick and hold the same
\* image URL at the same position.
C13_UniqueAcrossRequests ==
    pc = "two" =>
        \A j \in 1..Len(output.calls[1]) : \A k \in 1..Len(output.calls[2]) :
            output.calls[1][j].filename # output.calls[2][k].filename

\* The last segment of the path of an absolute http(s) URL: the authority and
\* the query string set apart, what follows the last '/' of the path, nothing
\* when the path is empty.
LastPathSegment(url) ==
    LET afterScheme == IF StartsWith(url, HttpsPrefix)
                       THEN SubSeq(url, Len(HttpsPrefix) + 1, Len(url))
                       ELSE SubSeq(url, Len(HttpPrefix) + 1, Len(url))
        parts == Split(Split(afterScheme, "?")[1], "/")
    IN  IF Len(parts) = 1 THEN << >> ELSE parts[Len(parts)]

\* The filename C16 describes for an image URL.
DescribedFilename(url, stamp, i) ==
    LET segment == LastPathSegment(url)
        withExt == IF Includes(segment, ".") THEN segment
                   ELSE segment \o <<".", "j", "p", "g">>
    IN  <<"c", "o", "n", "t", "e", "n", "t", "_">> \o ToDigits(stamp)
        \o <<"_">> \o ToDigits(i) \o <<"_">> \o Sanitize(withExt)

\* C16: the filename passed to image transport is made of the last path
\* segment of the URL with the query string removed, for every URL, '.jpg'
\* appended when it has no extension, sanitized, behind the prefix
\* content_<timestamp>_<index>_.
C16_LastPathSegment ==
    pc = "two" =>
        \A r \in Reqs : \A k \in 1..Len(output.calls[r]) :
            output.calls[r][k].filename =
                DescribedFilename(output.calls[r][k].url, output.timestamp[r],
                                  output.calls[r][k].index)

\* ------------------------------------------------------------ C14 .. C19
\* The outbound calls of the request, in the order they were issued, each
\* followed in `net` by the entry of its return.
IsCall(entry) == entry.kind # "return"

\* The number of outbound calls issued and not yet returned after the first
\* k entries of `net`.
InFlight(k) ==
    LET issued == Len(SelectSeq(SubSeq(net, 1, k), IsCall))
    IN  issued - (k - issued)

Downloads == {k \in 1..Len(net) : net[k].kind = "download"}

\* The place in `net` of the j-th download.
DownloadAt(j) ==
    SelectSeq([k \in 1..Len(net) |-> k], LAMBDA k : net[k].kind = "download")[j]

\* C14: at most one outbound call of the submission is in flight at any
\* moment, and the download of an image starts only after the download of the
\* image transported before it has returned and its upload, if one was
\* issued, has returned too.
C14_StrictlySequential ==
    /\ \A k \in 1..Len(net) : InFlight(k) \in {0, 1}
    /\ Cardinality(Downloads) = Len(calls)
    /\ \A j \in 2..Len(calls) :
         LET d == DownloadAt(j)
             p == DownloadAt(j - 1)
         IN  /\ InFlight(d - 1) = 0
             /\ \A u \in 1..Len(net) :
                  (net[u].kind = "upload" /\ net[u].target = calls[j - 1].filename)
                      => (p < u /\ u + 1 < d /\ net[u + 1] = Returned)

\* The second image is being uploaded; the first one was downloaded and
\* uploaded before.
C14_Witness ==
    /\ pc = "upload"
    /\ Len(calls) = 2
    /\ \E u \in 1..Len(net) : net[u].kind = "upload" /\ net[u].target = calls[1].filename
    /\ InFlight(Len(net)) = 1

\* What image transport returned for the image at index i, once the loop has
\* dealt with it: its asset, or nothing.
Outcome(i) ==
    IF i \in SucceededIndexes
    THEN Some((CHOOSE e \in {uploadedLog[k] : k \in 1..Len(uploadedLog)} : e.index = i).asset)
    ELSE Null

\* The document the outcomes determine: the parsed content, each img whose
\* outcome is an asset holding the base URL followed by the URL of that asset,
\* and each img for which transport returned an element that is no asset
\* holding the base URL followed by the text of the url that element lacks.
ExpectedBody ==
    LET orig == OrigImages
        done == {uploadedLog[k] : k \in 1..Len(uploadedLog)}
    IN  [p \in 1..Len(content) |->
            IF \E e \in done : orig[e.index + 1] = p
            THEN LET e == CHOOSE d \in done : orig[d.index + 1] = p
                 IN  [content[p] EXCEPT !.src = Some(StrapiUrl \o UrlTextOf(e.asset))]
            ELSE content[p]]

\* C15: every image whose transport succeeded has as src the CMS base URL
\* followed by the URL of the asset that the upload of that very image
\* returned, no two images share an asset, and the document, as the HTML
\* returned, is the parsed content changed only at the images for which
\* transport returned something, each by what was returned for it: a function
\* of the outcomes of the images in document order.
C15_OwnAssetRewrite ==
    /\ (pc = "imageDone" /\ result # Null) =>
          /\ result[1] = answer.data[1]
          /\ calls[Len(calls)].index = idx
          /\ net[Len(net) - 1] = [kind |-> "upload", target |-> calls[Len(calls)].filename]
          /\ result[1].shape = "asset" =>
                /\ answer.kind = "ok"
                /\ \A k \in 1..Len(uploadedLog) : uploadedLog[k].asset # result[1]
    /\ \A k, l \in 1..Len(uploadedLog) :
          k # l => /\ uploadedLog[k].index # uploadedLog[l].index
                   /\ (uploadedLog[k].asset.shape = "asset"
                       /\ uploadedLog[l].asset.shape = "asset")
                          => uploadedLog[k].asset.url # uploadedLog[l].asset.url
    /\ \A i \in SucceededIndexes : CurSrc(i) = Some(StrapiUrl \o Outcome(i)[1].url)
    /\ LET expected == ExpectedBody
       IN  /\ doc.body = expected
           /\ Rewritten => rewrite[1].html = CheerioHtml([body |-> expected])

\* The rewriter returned after two images were uploaded, each with its asset.
C15_Witness ==
    /\ Rewritten
    /\ Cardinality(SucceededIndexes) = 2
    /\ CurSrc(0) # CurSrc(1)

\* C17: the handler answers 200 with success only if the creation call
\* succeeded and a document stands in the CMS, and when it answers 500 the
\* request has created no document, whatever the shape of the answer to the
\* creation call.
C17_ResponseMatchesCms ==
    pc = "done" =>
        /\ (res[1].status = 200 /\ res[1].success) =>
              (CreateCalls # {} /\ answer.kind = "created" /\ Len(cms.docs) = 1)
        /\ res[1].status = 500 => Len(cms.docs) = 0

\* C18: document creation is called at most once, only for a request that
\* passed authorization and validation, when the rewriter has returned after
\* an attempt for every qualifying image and every earlier call, the cover
\* upload included, has returned; it submits the HTML the rewriter returned,
\* and no download or upload follows it.
C18_CreationLastAndOnce ==
    /\ Cardinality(CreateCalls) <= 1
    /\ CreateCalls = {} => (sent = Null /\ cms.docs = << >>)
    /\ \A c \in CreateCalls :
         /\ Authorized /\ ~MissingFields
         /\ Rewritten
         /\ idx = Len(OrigImages)
         /\ QualifyingIndexes = CalledIndexes
         /\ InFlight(c - 1) = 0
         /\ sent # Null
         /\ sent[1].content = rewrite[1].html
         /\ sent[1].content = CheerioHtml(doc)
         /\ \A k \in (c + 1)..Len(net) : net[k] = Returned
         /\ Len(cms.docs) <= 1

\* The creation call was made after a content image and the cover were
\* uploaded, and has returned.
C18_Witness ==
    /\ pc = "done"
    /\ CreateCalls # {}
    /\ SucceededIndexes # {}
    /\ HeroUploaded
    /\ \E c \in CreateCalls : c > 2 /\ net[c - 2].kind = "upload"

\* The request has its response.
Responded == pc = "done" /\ res # Null

Uploads == {k \in 1..Len(net) : net[k].kind = "upload"}

\* No image is attempted twice and no call is made again: at most one
\* transport call for each img element, at most one download for each
\* transport call, one upload more than that for the cover, one creation.
NoRetry ==
    /\ Len(calls) <= Len(OrigImages)
    /\ \A k, l \in 1..Len(calls) : k < l => calls[k].index < calls[l].index
    /\ idx <= Len(OrigImages)
    /\ Cardinality(Downloads) = Len(calls)
    /\ Cardinality(Uploads) <= Len(calls) + 1
    /\ Cardinality(CreateCalls) <= 1

\* C19: every request gets a response in the end, one of 401, 400, 200 and
\* 500, which is sent once and never followed by another; the image loop
\* makes at most one transport attempt for each img element and nothing is
\* tried again.
C19_OneResponseInTheEnd ==
    /\ <>Responded
    /\ [](Responded => res[1].status \in {401, 400, 200, 500})
    /\ [](res # Null => pc = "done")
    /\ [][res # Null => res' = res]_vars
    /\ []NoRetry

\* C19, with the answers given before the handler: every request gets a
\* response in the end, 401, 400, 200 or 500 from the handler, 400 from the
\* JSON error middleware, or from Express the status of a body-parser error
\* or 500 for an error of multer, which is sent once and never followed by another; an answer given before
\* the handler comes without any outbound call; the image loop makes at most
\* one transport attempt for each img element and nothing is tried again.
C19_OneResponseParsersIncluded ==
    /\ <>Responded
    /\ [](Responded =>
            /\ res[1].status \in {401, 400, 200, 500} \cup ParserErrorStatuses
            /\ AnsweredByHandler => res[1].status \in {401, 400, 200, 500}
            /\ res[1].message = "multer error" => res[1].status = 500
            /\ res[1].message = "Invalid JSON" => res[1].status = 400
            /\ ~AnsweredByHandler => (net = << >> /\ calls = << >>))
    /\ [](res # Null => pc = "done")
    /\ [][res # Null => res' = res]_vars
    /\ []NoRetry

\* A request with two images, both handed to image transport, has its
\* response.
C19_Witness ==
    /\ Responded
    /\ Len(calls) = 2
    /\ res[1].status \in {200, 500}

====
